---- MODULE Spec2Model ----
(***************************************************************************)
(* A model of the three programs of the repository:                        *)
(*   - dataset/grocery_dataset_generator.py    (the dataset generator)     *)
(*   - SmartGrocerUI/python/kumo_predictions.py (the prediction CLI)       *)
(*   - SmartGrocerUI/python/kumo_personalized_ingredients.py (ranking CLI) *)
(* Each program is a sequential state machine; the external services (the  *)
(* completion API, the Kumo SDK, the file system, the random generator's   *)
(* draws) are nondeterministic choices over the outcomes they can produce. *)
(***************************************************************************)
EXTENDS Integers, Sequences, FiniteSets, TLC

(***************************************************************************)
(* Bounds of the model.                                                    *)
(***************************************************************************)
\* how many of the 8 categories of the generator are run (the first ones)
NumCategories == 1
\* products_per_category ranges over 1..MaxProductsPerCategory
MaxProductsPerCategory == 3
\* batch_size ranges over 1..MaxBatchSize
MaxBatchSize == 3
\* the completion API may return up to batch_size + MaxExtraEntries entries
MaxExtraEntries == 1
\* users generated (100 in the source)
NumUsers == 2
\* orders generated (2000 in the source)
NumOrders == 1
\* get_product_substitution_rate: product ids 1..MaxRateProductId, at most
\* MaxRateRows rows of order_items, at most MaxRateCalls calls per product
MaxRateProductId == 2
MaxRateRows == 2
MaxRateCalls == 2
\* rank_products_for_user: product ids 1..MaxRankId, lists of at most
\* MaxRankLen ids
MaxRankId == 3
MaxRankLen == 3

(***************************************************************************)
(* Program constants of the generator.                                     *)
(***************************************************************************)
SIMILAR_BATCH_PCT == 60
SIMILAR_SUBSET_PCT == 40
MinHouseholdSize == 1
MaxHouseholdSize == 5
MinBaseBasket == 5
MaxBaseBasket == 15
BasketCap == 25
MaxAffinityExtra == 3

Categories ==
  <<"Produce", "Dairy", "Bakery", "Meat & Seafood", "Pantry Staples",
    "Snacks", "Beverages", "Household">>

(***************************************************************************)
(* Helpers.                                                                *)
(***************************************************************************)
Min(a, b) == IF a <= b THEN a ELSE b
Max(a, b) == IF a >= b THEN a ELSE b
Range(s) == {s[i] : i \in DOMAIN s}
SetMin(S) == CHOOSE x \in S : \A y \in S : x <= y
\* the sequences of k distinct elements of S (random.sample's results)
Samples(S, k) == {s \in [1..k -> S] : \A i, j \in 1..k : i # j => s[i] # s[j]}
\* the sets of k positions of a list of length n
Positions(n, k) == {P \in SUBSET (1..n) : Cardinality(P) = k}
RECURSIVE SumSeq(_)
SumSeq(s) == IF s = <<>> THEN 0 ELSE s[1] + SumSeq(Tail(s))
RECURSIVE Flatten(_)
Flatten(ss) == IF ss = <<>> THEN <<>> ELSE ss[1] \o Flatten(Tail(ss))

VARIABLES
  \* ---- dataset generator ----
  gpc,                    \* position of the generator ("off" when not run)
  products_per_category,  \* argument of generate_products_via_api
  batch_size,             \* argument of generate_products_via_api
  users,                  \* users_df: user_id -> household_size
  all_products,           \* rows of the catalog, in order
  category_products,      \* rows of the category being generated
  substitution_map,       \* original product_id -> list of variant ids
  product_id_counter,
  cat,                    \* index into Categories of the current category
  batch_start,            \* loop variable of the batch loop
  current_batch_size,
  base_products,          \* result of generate_base_products_batch
  api_calls,              \* completion API calls issued for the current batch
  orders,                 \* orders_df rows
  cur_order,              \* index of the order whose items are generated
  basket_size,
  selected_products,      \* set of product ids selected for the order
  todo_products,          \* selected products not yet turned into items
  last_item,              \* the row appended to order_items most recently
  num_items,              \* len(order_items)
  fill_tick,              \* flips at every iteration of the basket-filling loop
  batch_before,           \* len(category_products) when the current batch began
  batch_outcome,          \* how the current batch went ("none" between batches)
  all_succeeded,          \* no batch so far failed or was answered short
  \* ---- the two command-line scripts ----
  cpc,                    \* position of the script ("off" when not run)
  script,                 \* "predictions" or "ingredients"
  argc,                   \* len(sys.argv)
  prediction_type,        \* sys.argv[1] of kumo_predictions.py
  arg1_json_ok,           \* sys.argv[1] is valid JSON (ingredients)
  arg2_ok,                \* sys.argv[2] parses as the integer(s) it must hold
  arg3_ok,                \* sys.argv[3] parses as an integer
  csv_ok,                 \* the four CSV files can be read
  KUMO_AVAILABLE,
  init_ok,                \* rfm.init() returned
  loaded,                 \* the tables are loaded (users_df ... not None)
  model,                  \* self.model is not None
  stdout,                 \* what was written to standard output, in order
  stderr,                 \* what was written to standard error, in order
  exit_status,            \* exit status, once cpc = "exited"
  result_source,          \* which path built the returned list
  sdk_calls,              \* query -> number of model.predict calls issued
  sdk_outcome,            \* query -> outcome of its predict call
  number_products,        \* predict_cart_items' number_products
  cols_used,               \* table -> columns read or queried by name
  \* ---- get_product_substitution_rate ----
  rpc,                    \* "ready" while a predictor takes calls, else "off"
  order_items_kind,       \* order_items_df: "none" or the columns it has
  order_items_rows,       \* its rows
  products_loaded,        \* products_df is not None
  product_prices,         \* products_df: product_id -> price_per_unit
  rng_state,              \* state of the module-level random generator
  rate_calls,             \* product_id -> number of calls made for it
  first_rate,             \* product_id -> value its first call returned
  last_result,            \* product_id -> value and band of its last call
  \* ---- one call of a single function ----
  fn,                     \* the function called ("off" when none is)
  fn_args,                \* its arguments and the tables it reads
  fn_returned,            \* the call has returned
  fn_result               \* what it returned

genVars ==
  <<gpc, products_per_category, batch_size, users, all_products,
    category_products, substitution_map, product_id_counter, cat, batch_start,
    current_batch_size, base_products, api_calls, orders, cur_order,
    basket_size, selected_products, todo_products, last_item, num_items,
    fill_tick, batch_before, batch_outcome, all_succeeded>>

cliVars ==
  <<cpc, script, argc, prediction_type, arg1_json_ok, arg2_ok, arg3_ok, csv_ok,
    KUMO_AVAILABLE, init_ok, loaded, model, stdout, stderr, exit_status,
    result_source, sdk_calls, sdk_outcome, number_products, cols_used>>

rateVars ==
  <<rpc, order_items_kind, order_items_rows, products_loaded, product_prices,
    rng_state, rate_calls, first_rate, last_result>>

fnVars == <<fn, fn_args, fn_returned, fn_result>>

vars == <<genVars, cliVars, rateVars, fnVars>>

(***************************************************************************)
(* The dataset generator.                                                  *)
(***************************************************************************)
Ids(rows) == {rows[i].product_id : i \in DOMAIN rows}
IdsAt(rows, P) == {rows[i].product_id : i \in P}
EmptyMap == [k \in {} |-> <<>>]
NoItem ==
  [order_id |-> 0, product_id |-> 0, was_substituted |-> FALSE,
   original_id |-> 0]

\* the lists the completion API can answer with: each entry either has the
\* five required keys (TRUE) or lacks one (FALSE)
Responses(n) == UNION {[1..k -> BOOLEAN] : k \in 0..(n + MaxExtraEntries)}

\* generate_base_products_batch, lines 188-196: the entries that have the
\* required keys, each with product_id = start_id + its index in the answer
ValidProducts(resp, category, n, start_id) ==
  LET keep == SelectSeq([i \in 1..Len(resp) |-> i], LAMBDA i : resp[i])
      valid == [j \in 1..Len(keep) |->
                  [product_id |-> start_id + (keep[j] - 1),
                   category |-> category, origin |-> "api"]]
  IN SubSeq(valid, 1, Min(n, Len(valid)))

generate_fallback_batch(category, n, start_id) ==
  [i \in 1..n |-> [product_id |-> start_id + (i - 1),
                   category |-> category, origin |-> "fallback"]]

create_similar_product(base_product, new_id) ==
  [product_id |-> new_id, category |-> base_product.category,
   origin |-> "similar"]

\* generate_similar_products: the pairs <<similar_products, substitution_map>>
\* it can return for a non-empty list of base products
generate_similar_products(base, start_id) ==
  LET n == Len(base)
      batch_selection_count == Max(1, (n * SIMILAR_BATCH_PCT) \div 100)
      selCount == Min(batch_selection_count, n)
      variant_count == Max(1, (selCount * SIMILAR_SUBSET_PCT) \div 100)
      varCount == Min(variant_count, selCount)
      Build(getting, nv) ==
        LET first(j) == start_id + SumSeq(SubSeq(nv, 1, j - 1))
            variant_ids(j) == [v \in 1..nv[j] |-> first(j) + (v - 1)]
            similar == Flatten([j \in 1..varCount |->
                         [v \in 1..nv[j] |->
                            create_similar_product(base[getting[j]],
                                                   variant_ids(j)[v])]])
            keys == {base[getting[j]].product_id : j \in 1..varCount}
            smap == [k \in keys |->
                       variant_ids(CHOOSE j \in 1..varCount :
                                     base[getting[j]].product_id = k)]
        IN <<similar, smap>>
  IN {Build(getting, nv) :
        getting \in UNION {Samples(sel, varCount) : sel \in Positions(n, selCount)},
        nv \in [1..varCount -> {1, 2}]}

MapUpdate(old, new) ==
  [k \in (DOMAIN old) \cup (DOMAIN new) |->
     IF k \in DOMAIN new THEN new[k] ELSE old[k]]

GenStart ==
  /\ users = <<>>
  /\ all_products = <<>>
  /\ category_products = <<>>
  /\ substitution_map = EmptyMap
  /\ product_id_counter = 1
  /\ cat = 1
  /\ batch_start = 0
  /\ current_batch_size = 0
  /\ base_products = <<>>
  /\ api_calls = 0
  /\ orders = <<>>
  /\ cur_order = 1
  /\ basket_size = 0
  /\ selected_products = {}
  /\ todo_products = {}
  /\ last_item = NoItem
  /\ num_items = 0
  /\ fill_tick = FALSE
  /\ batch_before = 0
  /\ batch_outcome = "none"
  /\ all_succeeded = TRUE

\* the generator is not run
GenOff ==
  /\ gpc = "off"
  /\ products_per_category = 0
  /\ batch_size = 0
  /\ GenStart

\* generate_users: user ids 1..NumUsers, each with a random household size
GenerateUsers ==
  /\ gpc = "users"
  /\ users' \in [1..NumUsers -> MinHouseholdSize..MaxHouseholdSize]
  /\ gpc' = "batch_head"
  /\ UNCHANGED <<products_per_category, batch_size, all_products,
                 category_products, substitution_map, product_id_counter, cat,
                 batch_start, current_batch_size, base_products, api_calls,
                 orders, cur_order, basket_size, selected_products,
                 todo_products, last_item, num_items, fill_tick>>
  /\ UNCHANGED <<batch_before, batch_outcome, all_succeeded>>
  /\ UNCHANGED <<cliVars, rateVars, fnVars>>

\* head of the batch loop: the next batch of the category, lines 62-69
BatchBegin ==
  /\ gpc = "batch_head"
  /\ batch_start < products_per_category
  /\ products_per_category - Len(category_products) > 0
  /\ current_batch_size' =
       Min(batch_size, products_per_category - Len(category_products))
  /\ api_calls' = 0
  /\ gpc' = "api_call"
  /\ UNCHANGED <<products_per_category, batch_size, users, all_products,
                 category_products, substitution_map, product_id_counter, cat,
                 batch_start, base_products, orders, cur_order, basket_size,
                 selected_products, todo_products, last_item, num_items, fill_tick>>
  /\ batch_before' = Len(category_products)
  /\ batch_outcome' = "none"
  /\ UNCHANGED all_succeeded
  /\ UNCHANGED <<cliVars, rateVars, fnVars>>

\* the batch loop of a category ends (range exhausted, or break): the
\* category's products join the catalog and the next category starts
CategoryEnd ==
  /\ gpc = "batch_head"
  /\ \/ batch_start >= products_per_category
     \/ products_per_category - Len(category_products) <= 0
  /\ all_products' = all_products \o category_products
  /\ category_products' = <<>>
  /\ batch_start' = 0
  /\ IF cat < NumCategories
       THEN cat' = cat + 1 /\ gpc' = "batch_head"
       ELSE cat' = cat /\ gpc' = "dataframe"
  /\ UNCHANGED <<products_per_category, batch_size, users, substitution_map,
                 product_id_counter, current_batch_size, base_products,
                 api_calls, orders, cur_order, basket_size, selected_products,
                 todo_products, last_item, num_items, fill_tick>>
  /\ batch_before' = 0
  /\ batch_outcome' = "none"
  /\ UNCHANGED all_succeeded
  /\ UNCHANGED <<cliVars, rateVars, fnVars>>

\* generate_base_products_batch: the completion API answers with a list
ApiCallReturns ==
  /\ gpc = "api_call"
  /\ api_calls' = api_calls + 1
  /\ \E resp \in Responses(current_batch_size) :
       base_products' = ValidProducts(resp, Categories[cat],
                                      current_batch_size, product_id_counter)
  /\ gpc' = "have_base"
  /\ UNCHANGED <<products_per_category, batch_size, users, all_products,
                 category_products, substitution_map, product_id_counter, cat,
                 batch_start, current_batch_size, orders, cur_order,
                 basket_size, selected_products, todo_products, last_item, num_items, fill_tick>>
  /\ batch_outcome' = IF Len(base_products') = current_batch_size
                       THEN "ok" ELSE "short"
  /\ all_succeeded' = (all_succeeded
                          /\ Len(base_products') = current_batch_size)
  /\ UNCHANGED batch_before
  /\ UNCHANGED <<cliVars, rateVars, fnVars>>

\* generate_base_products_batch: the API call, or the parsing of its answer,
\* raises
ApiCallFails ==
  /\ gpc = "api_call"
  /\ api_calls' = api_calls + 1
  /\ gpc' = "api_failed"
  /\ UNCHANGED <<products_per_category, batch_size, users, all_products,
                 category_products, substitution_map, product_id_counter, cat,
                 batch_start, current_batch_size, base_products, orders,
                 cur_order, basket_size, selected_products, todo_products,
                 last_item, num_items, fill_tick>>
  /\ batch_outcome' = "api_failed"
  /\ all_succeeded' = FALSE
  /\ UNCHANGED batch_before
  /\ UNCHANGED <<cliVars, rateVars, fnVars>>

\* a variant that issues the failed call again
RetryAfterApiFailure == "api_call"

\* where control goes after a failed API call
AfterApiFailure == "have_base"

\* generate_base_products_batch, except branch: the fallback batch
ApiFallback ==
  /\ gpc = "api_failed"
  /\ base_products' = generate_fallback_batch(Categories[cat],
                                              current_batch_size,
                                              product_id_counter)
  /\ gpc' = AfterApiFailure
  /\ UNCHANGED <<products_per_category, batch_size, users, all_products,
                 category_products, substitution_map, product_id_counter, cat,
                 batch_start, current_batch_size, api_calls, orders, cur_order,
                 basket_size, selected_products, todo_products, last_item, num_items, fill_tick>>
  /\ UNCHANGED <<batch_before, batch_outcome, all_succeeded>>
  /\ UNCHANGED <<cliVars, rateVars, fnVars>>

\* "if not base_products: continue"
BatchEmpty ==
  /\ gpc = "have_base"
  /\ base_products = <<>>
  /\ batch_start' = batch_start + batch_size
  /\ gpc' = "batch_head"
  /\ UNCHANGED <<products_per_category, batch_size, users, all_products,
                 category_products, substitution_map, product_id_counter, cat,
                 current_batch_size, base_products, api_calls, orders,
                 cur_order, basket_size, selected_products, todo_products,
                 last_item, num_items, fill_tick>>
  /\ UNCHANGED <<batch_before, batch_outcome, all_succeeded>>
  /\ UNCHANGED <<cliVars, rateVars, fnVars>>

\* the id the similar products of a batch start at, lines 81-86
SimilarStartId(counter, base) == counter + Len(base)

\* the rest of the try block: base products join the category, similar
\* products are generated and join it too
BatchSimilar ==
  /\ gpc = "have_base"
  /\ base_products # <<>>
  /\ \E out \in generate_similar_products(
                  base_products,
                  SimilarStartId(product_id_counter, base_products)) :
       /\ category_products' = category_products \o base_products \o out[1]
       /\ substitution_map' = MapUpdate(substitution_map, out[2])
       /\ product_id_counter' =
            product_id_counter + Len(base_products) + Len(out[1])
  /\ batch_start' = batch_start + batch_size
  /\ gpc' = "batch_head"
  /\ UNCHANGED <<products_per_category, batch_size, users, all_products, cat,
                 current_batch_size, base_products, api_calls, orders,
                 cur_order, basket_size, selected_products, todo_products,
                 last_item, num_items, fill_tick>>
  /\ UNCHANGED <<batch_before, batch_outcome, all_succeeded>>
  /\ UNCHANGED <<cliVars, rateVars, fnVars>>

\* generate_similar_products raises (an API-supplied value of the wrong type)
\* after the base products joined the category: the except branch appends a
\* fallback batch
BatchSimilarRaises ==
  /\ gpc = "have_base"
  /\ base_products # <<>>
  /\ \E i \in DOMAIN base_products : base_products[i].origin = "api"
  /\ category_products' =
       category_products \o base_products \o
       generate_fallback_batch(Categories[cat], current_batch_size,
                               product_id_counter + Len(base_products))
  /\ product_id_counter' =
       product_id_counter + Len(base_products) + current_batch_size
  /\ batch_start' = batch_start + batch_size
  /\ gpc' = "batch_head"
  /\ UNCHANGED <<products_per_category, batch_size, users, all_products,
                 substitution_map, cat, current_batch_size, base_products,
                 api_calls, orders, cur_order, basket_size, selected_products,
                 todo_products, last_item, num_items, fill_tick>>
  /\ batch_outcome' = "similar_raised"
  /\ all_succeeded' = FALSE
  /\ UNCHANGED batch_before
  /\ UNCHANGED <<cliVars, rateVars, fnVars>>

\* pd.DataFrame(all_products)[column_order]: a KeyError when no product was
\* generated; otherwise the catalog is complete
MakeDataFrame ==
  /\ gpc = "dataframe"
  /\ gpc' = IF all_products = <<>> THEN "crashed" ELSE "orders"
  /\ UNCHANGED <<products_per_category, batch_size, users, all_products,
                 category_products, substitution_map, product_id_counter, cat,
                 batch_start, current_batch_size, base_products, api_calls,
                 orders, cur_order, basket_size, selected_products,
                 todo_products, last_item, num_items, fill_tick>>
  /\ UNCHANGED <<batch_before, batch_outcome, all_succeeded>>
  /\ UNCHANGED <<cliVars, rateVars, fnVars>>

\* a variant whose range starts one too low
OrderUserIdsFromZero == 0..NumUsers

\* the user ids an order can be given, line 418
OrderUserIds == 1..NumUsers

\* generate_orders: one iteration of its loop
GenerateOrder ==
  /\ gpc = "orders"
  /\ Len(orders) < NumOrders
  /\ \E user_id \in OrderUserIds :
       orders' = Append(orders, [order_id |-> Len(orders) + 1,
                                 user_id |-> user_id])
  /\ UNCHANGED <<gpc, products_per_category, batch_size, users, all_products,
                 category_products, substitution_map, product_id_counter, cat,
                 batch_start, current_batch_size, base_products, api_calls,
                 cur_order, basket_size, selected_products, todo_products,
                 last_item, num_items, fill_tick>>
  /\ UNCHANGED <<batch_before, batch_outcome, all_succeeded>>
  /\ UNCHANGED <<cliVars, rateVars, fnVars>>

OrdersDone ==
  /\ gpc = "orders"
  /\ Len(orders) = NumOrders
  /\ gpc' = "order_begin"
  /\ UNCHANGED <<products_per_category, batch_size, users, all_products,
                 category_products, substitution_map, product_id_counter, cat,
                 batch_start, current_batch_size, base_products, api_calls,
                 orders, cur_order, basket_size, selected_products,
                 todo_products, last_item, num_items, fill_tick>>
  /\ UNCHANGED <<batch_before, batch_outcome, all_succeeded>>
  /\ UNCHANGED <<cliVars, rateVars, fnVars>>


\* rows of the catalog of a category
CatRows(c) == {i \in DOMAIN all_products : all_products[i].category = c}
SubsetsOfSize(S, k) == {P \in SUBSET S : Cardinality(P) = k}

\* basket size of an order, lines 507-510
BasketSize(base_basket_size, household_size) ==
  Min((base_basket_size * (10 + 3 * (household_size - 1))) \div 10, BasketCap)

\* generate_order_items, lines 520-525: one affinity group (the catalog rows
\* `group`): when a selected product is in it, a sample of it is added
AffinityAdd(sel, group) ==
  IF IdsAt(all_products, group) \cap sel = {}
    THEN {sel}
    ELSE {sel \cup IdsAt(all_products, P) :
            P \in UNION {SubsetsOfSize(group, Min(r, Cardinality(group))) :
                           r \in 1..MaxAffinityExtra}}

\* generate_order_items: the items of all orders are generated
ItemsDone ==
  /\ gpc = "order_begin"
  /\ cur_order > Len(orders)
  /\ gpc' = "done"
  /\ UNCHANGED <<products_per_category, batch_size, users, all_products,
                 category_products, substitution_map, product_id_counter, cat,
                 batch_start, current_batch_size, base_products, api_calls,
                 orders, cur_order, basket_size, selected_products,
                 todo_products, last_item, num_items, fill_tick>>
  /\ UNCHANGED <<batch_before, batch_outcome, all_succeeded>>
  /\ UNCHANGED <<cliVars, rateVars, fnVars>>

\* generate_order_items, lines 497-517: the basket size of the next order and
\* its first, random products
OrderBegin ==
  /\ gpc = "order_begin"
  /\ cur_order <= Len(orders)
  /\ \E base_basket_size \in MinBaseBasket..MaxBaseBasket :
       LET size == BasketSize(base_basket_size,
                              users[orders[cur_order].user_id])
       IN /\ basket_size' = size
          /\ \E P \in SubsetsOfSize(DOMAIN all_products,
                                    Min(size \div 2, Len(all_products))) :
               selected_products' = IdsAt(all_products, P)
  /\ gpc' = "affinities"
  /\ UNCHANGED <<products_per_category, batch_size, users, all_products,
                 category_products, substitution_map, product_id_counter, cat,
                 batch_start, current_batch_size, base_products, api_calls,
                 orders, cur_order, todo_products, last_item, num_items,
                 fill_tick>>
  /\ UNCHANGED <<batch_before, batch_outcome, all_succeeded>>
  /\ UNCHANGED <<cliVars, rateVars, fnVars>>

\* create_product_affinities and lines 520-525. Product names are not part of
\* the model: the rows whose name contains 'milk', 'cheese', 'pasta' or
\* 'sauce' are any rows of their category. The groups are visited in the
\* order the dict holds them (categories in sorted order).
AddAffinities ==
  /\ gpc = "affinities"
  /\ LET ByName(S, c) ==
           UNION {AffinityAdd(sel, group) :
                    sel \in S, group \in SUBSET CatRows(c)}
         ByCategory(S, c) ==
           UNION {AffinityAdd(sel, CatRows(c)) : sel \in S}
         breakfast == ByName({selected_products}, "Dairy")
         snacks == ByName(breakfast, "Dairy")
         pasta_meal == ByName(snacks, "Pantry Staples")
         healthy == ByCategory(pasta_meal, "Produce")
         snack_time == ByCategory(healthy, "Snacks")
     IN selected_products' \in snack_time
  /\ gpc' = "fill"
  /\ UNCHANGED <<products_per_category, batch_size, users, all_products,
                 category_products, substitution_map, product_id_counter, cat,
                 batch_start, current_batch_size, base_products, api_calls,
                 orders, cur_order, basket_size, todo_products, last_item,
                 num_items, fill_tick>>
  /\ UNCHANGED <<batch_before, batch_outcome, all_succeeded>>
  /\ UNCHANGED <<cliVars, rateVars, fnVars>>

\* how many products one iteration of the basket-filling loop samples,
\* lines 529-532
FillSampleCount(size, selected, n_rows) ==
  Min(size - Cardinality(selected), n_rows - Cardinality(selected))

\* one iteration of "while len(selected_products) < basket_size"
FillStep ==
  /\ gpc = "fill"
  /\ Cardinality(selected_products) < basket_size
  /\ LET candidates == {i \in DOMAIN all_products :
                          all_products[i].product_id \notin selected_products}
         k == FillSampleCount(basket_size, selected_products,
                              Len(all_products))
     IN IF k > Cardinality(candidates)
          THEN \* random.sample raises ValueError: larger than the population
               /\ gpc' = "crashed"
               /\ UNCHANGED selected_products
          ELSE /\ gpc' = "fill"
               /\ \E P \in SubsetsOfSize(candidates, k) :
                    selected_products' =
                      selected_products \cup IdsAt(all_products, P)
  /\ fill_tick' = ~fill_tick
  /\ UNCHANGED <<products_per_category, batch_size, users, all_products,
                 category_products, substitution_map, product_id_counter, cat,
                 batch_start, current_batch_size, base_products, api_calls,
                 orders, cur_order, basket_size, todo_products, last_item,
                 num_items>>
  /\ UNCHANGED <<batch_before, batch_outcome, all_succeeded>>
  /\ UNCHANGED <<cliVars, rateVars, fnVars>>

\* the loop ends; "list(selected_products)[:basket_size]" keeps basket_size
\* of the selected products
TrimBasket ==
  /\ gpc = "fill"
  /\ Cardinality(selected_products) >= basket_size
  /\ todo_products' \in SubsetsOfSize(selected_products, basket_size)
  /\ gpc' = "items"
  /\ UNCHANGED <<products_per_category, batch_size, users, all_products,
                 category_products, substitution_map, product_id_counter, cat,
                 batch_start, current_batch_size, base_products, api_calls,
                 orders, cur_order, basket_size, selected_products, last_item,
                 num_items, fill_tick>>
  /\ UNCHANGED <<batch_before, batch_outcome, all_succeeded>>
  /\ UNCHANGED <<cliVars, rateVars, fnVars>>

\* the product ids that may replace product_id, lines 556-560
Substitutes(product_id) ==
  IF product_id \in DOMAIN substitution_map
       /\ substitution_map[product_id] # <<>>
    THEN Range(substitution_map[product_id])
    ELSE {product_id}

\* the row of one selected product, lines 553-568 (quantity is not modelled);
\* the products of a basket are taken in ascending order
OrderItem(order_id, product_id, draw_substitution, substitute_id) ==
  IF draw_substitution
    THEN [order_id |-> order_id, product_id |-> substitute_id,
          was_substituted |-> TRUE, original_id |-> product_id]
    ELSE [order_id |-> order_id, product_id |-> product_id,
          was_substituted |-> FALSE, original_id |-> product_id]

AppendItem ==
  /\ gpc = "items"
  /\ todo_products # {}
  /\ LET product_id == SetMin(todo_products)
     IN /\ \E draw_substitution \in BOOLEAN :
             \E substitute_id \in Substitutes(product_id) :
               last_item' = OrderItem(orders[cur_order].order_id, product_id,
                                      draw_substitution, substitute_id)
        /\ todo_products' = todo_products \ {product_id}
  /\ num_items' = num_items + 1
  /\ UNCHANGED <<gpc, products_per_category, batch_size, users, all_products,
                 category_products, substitution_map, product_id_counter, cat,
                 batch_start, current_batch_size, base_products, api_calls,
                 orders, cur_order, basket_size, selected_products, fill_tick>>
  /\ UNCHANGED <<batch_before, batch_outcome, all_succeeded>>
  /\ UNCHANGED <<cliVars, rateVars, fnVars>>

\* the items of the order are complete: the next order
OrderEnd ==
  /\ gpc = "items"
  /\ todo_products = {}
  /\ cur_order' = cur_order + 1
  /\ gpc' = "order_begin"
  /\ UNCHANGED <<products_per_category, batch_size, users, all_products,
                 category_products, substitution_map, product_id_counter, cat,
                 batch_start, current_batch_size, base_products, api_calls,
                 orders, basket_size, selected_products, todo_products,
                 last_item, num_items, fill_tick>>
  /\ UNCHANGED <<batch_before, batch_outcome, all_succeeded>>
  /\ UNCHANGED <<cliVars, rateVars, fnVars>>

NextGen ==
  \/ GenerateUsers
  \/ BatchBegin
  \/ CategoryEnd
  \/ ApiCallReturns
  \/ ApiCallFails
  \/ ApiFallback
  \/ BatchEmpty
  \/ BatchSimilar
  \/ BatchSimilarRaises
  \/ MakeDataFrame
  \/ GenerateOrder
  \/ OrdersDone
  \/ ItemsDone
  \/ OrderBegin
  \/ AddAffinities
  \/ FillStep
  \/ TrimBasket
  \/ AppendItem
  \/ OrderEnd

(***************************************************************************)
(* The command-line scripts kumo_predictions.py and                        *)
(* kumo_personalized_ingredients.py.                                       *)
(***************************************************************************)
PredictionTypes ==
  {"cart", "recommendations", "delivery-times", "substitution-rate",
   "batch-substitution-rates"}
\* a prediction type that is none of the five
OtherType == "other"

Queries == {"quantity", "products", "recommendations", "delivery", "ranking"}
Tables == {"users", "products", "orders", "order_items"}

\* What model.predict can do:
\*   ok        it returns a well-formed, non-empty result
\*   raise     it raises
\*   no_attr   it returns None or an object without the attribute read
\*   empty     it returns a result with no rows
\*   bad_rows  it returns rows that cannot be used (ids that are not in the
\*             catalog, windows that do not parse, a quantity that is no number)
PredictOutcomes == {"ok", "raise", "no_attr", "empty", "bad_rows"}

\* the columns the generator writes to each CSV file
GeneratorColumns ==
  [t \in Tables |->
     CASE t = "users" ->
            {"user_id", "household_size", "dietary_preference",
             "primary_shopping_day"}
       [] t = "products" ->
            {"product_id", "product_name", "category", "brand", "size",
             "unit", "price_per_unit"}
       [] t = "orders" ->
            {"order_id", "user_id", "order_timestamp", "delivery_method",
             "delivery_time_window"}
       [] t = "order_items" ->
            {"order_id", "product_id", "quantity", "was_substituted"}]

NoColumns == [t \in Tables |-> {}]
Use(used, t, columns) == [used EXCEPT ![t] = @ \cup columns]
ProductColumnsRead ==
  {"product_id", "product_name", "brand", "category", "size", "unit",
   "price_per_unit"}

\* number_products when the quantity query fails, line 131
DefaultNumberProducts == 20
\* the quantities the SDK is taken to predict
PredictedQuantities == {3, 30}

CliStart ==
  /\ KUMO_AVAILABLE = FALSE
  /\ init_ok = FALSE
  /\ loaded = FALSE
  /\ model = FALSE
  /\ stdout = <<>>
  /\ stderr = <<>>
  /\ exit_status = 0
  /\ result_source = "none"
  /\ sdk_calls = [q \in Queries |-> 0]
  /\ sdk_outcome = [q \in Queries |-> "none"]
  /\ number_products = 0
  /\ cols_used = NoColumns

\* no script is run
CliOff ==
  /\ cpc = "off"
  /\ script = "none"
  /\ argc = 0
  /\ prediction_type = "none"
  /\ arg1_json_ok = FALSE
  /\ arg2_ok = FALSE
  /\ arg3_ok = FALSE
  /\ csv_ok = FALSE
  /\ CliStart

InitPredictions ==
  /\ cpc = "import"
  /\ script = "predictions"
  /\ argc \in 1..5
  /\ prediction_type \in PredictionTypes \cup {OtherType}
  /\ arg1_json_ok = FALSE
  /\ arg2_ok \in BOOLEAN
  /\ arg3_ok \in BOOLEAN
  /\ csv_ok \in BOOLEAN
  /\ CliStart

InitIngredients ==
  /\ cpc = "import"
  /\ script = "ingredients"
  /\ argc \in 1..3
  /\ prediction_type = "none"
  /\ arg1_json_ok \in BOOLEAN
  /\ arg2_ok \in BOOLEAN
  /\ arg3_ok = FALSE
  /\ csv_ok \in BOOLEAN
  /\ CliStart

\* the command-line arguments are malformed
ArgsMalformed ==
  IF script = "predictions"
    THEN \/ argc < 3
         \/ prediction_type \notin PredictionTypes
         \/ ~arg2_ok
         \/ (prediction_type # "batch-substitution-rates"
               /\ argc > 3 /\ ~arg3_ok)
    ELSE \/ argc < 3
         \/ ~arg1_json_ok
         \/ ~arg2_ok

\* the process ends
Exit(status) ==
  /\ cpc' = "exited"
  /\ exit_status' = status

\* the stream an SDK call's own output goes to: standard error inside
\* "with contextlib.redirect_stdout(sys.stderr)", standard output outside
SdkStream(redirected) == IF redirected THEN "stderr" ELSE "stdout"
SdkOutput(prints) == IF prints THEN <<"sdk_output">> ELSE <<>>
ToStdout(stream, tags) == IF stream = "stdout" THEN tags ELSE <<>>
ToStderr(stream, tags) == IF stream = "stderr" THEN tags ELSE <<>>

\* module level, lines 16-22 of both scripts: the SDK import
Import ==
  /\ cpc = "import"
  /\ KUMO_AVAILABLE' \in BOOLEAN
  /\ stderr' = IF KUMO_AVAILABLE' THEN stderr
                                  ELSE Append(stderr, "sdk_not_installed")
  /\ cpc' = "main"
  /\ UNCHANGED <<script, argc, prediction_type, arg1_json_ok, arg2_ok, arg3_ok,
                 csv_ok, init_ok, loaded, model, stdout, exit_status,
                 result_source, sdk_calls, sdk_outcome, number_products,
                 cols_used>>
  /\ UNCHANGED <<genVars, rateVars, fnVars>>

\* a variant in which both scripts print the usage message to standard output
UsageAlwaysStdout(which) == "stdout"

\* the stream the usage message of a script is printed to
UsageStream(which) == IF which = "predictions" THEN "stdout" ELSE "stderr"

\* main of kumo_predictions.py, lines 572-586: too few arguments
PredictionsUsage ==
  /\ cpc = "main"
  /\ script = "predictions"
  /\ argc < 3
  /\ IF UsageStream(script) = "stdout"
       THEN stdout' = Append(stdout, "usage") /\ UNCHANGED stderr
       ELSE stderr' = Append(stderr, "usage") /\ UNCHANGED stdout
  /\ Exit(1)
  /\ UNCHANGED <<script, argc, prediction_type, arg1_json_ok, arg2_ok, arg3_ok,
                 csv_ok, KUMO_AVAILABLE, init_ok, loaded, model,
                 result_source, sdk_calls, sdk_outcome, number_products,
                 cols_used>>
  /\ UNCHANGED <<genVars, rateVars, fnVars>>

\* main of kumo_predictions.py, lines 578-586: int(sys.argv[2]) and
\* int(sys.argv[3]); a ValueError is not caught and ends the process with a
\* traceback on standard error
PredictionsParseArgs ==
  /\ cpc = "main"
  /\ script = "predictions"
  /\ argc >= 3
  /\ IF prediction_type # "batch-substitution-rates"
          /\ (~arg2_ok \/ (argc > 3 /\ ~arg3_ok))
       THEN /\ stderr' = Append(stderr, "traceback")
            /\ Exit(1)
       ELSE /\ cpc' = "construct"
            /\ UNCHANGED <<stderr, exit_status>>
  /\ UNCHANGED <<script, argc, prediction_type, arg1_json_ok, arg2_ok, arg3_ok,
                 csv_ok, KUMO_AVAILABLE, init_ok, loaded, model, stdout,
                 result_source, sdk_calls, sdk_outcome, number_products,
                 cols_used>>
  /\ UNCHANGED <<genVars, rateVars, fnVars>>

\* main of kumo_personalized_ingredients.py, lines 188-190
IngredientsUsage ==
  /\ cpc = "main"
  /\ script = "ingredients"
  /\ argc < 3
  /\ IF UsageStream(script) = "stdout"
       THEN stdout' = Append(stdout, "usage") /\ UNCHANGED stderr
       ELSE stderr' = Append(stderr, "usage") /\ UNCHANGED stdout
  /\ Exit(1)
  /\ UNCHANGED <<script, argc, prediction_type, arg1_json_ok, arg2_ok, arg3_ok,
                 csv_ok, KUMO_AVAILABLE, init_ok, loaded, model,
                 result_source, sdk_calls, sdk_outcome, number_products,
                 cols_used>>
  /\ UNCHANGED <<genVars, rateVars, fnVars>>

\* main of kumo_personalized_ingredients.py, lines 192-197
IngredientsParseArgs ==
  /\ cpc = "main"
  /\ script = "ingredients"
  /\ argc >= 3
  /\ IF ~arg1_json_ok \/ ~arg2_ok
       THEN /\ stderr' = Append(stderr, "invalid_arguments")
            /\ Exit(1)
       ELSE /\ cpc' = "construct"
            /\ UNCHANGED <<stderr, exit_status>>
  /\ UNCHANGED <<script, argc, prediction_type, arg1_json_ok, arg2_ok, arg3_ok,
                 csv_ok, KUMO_AVAILABLE, init_ok, loaded, model, stdout,
                 result_source, sdk_calls, sdk_outcome, number_products,
                 cols_used>>
  /\ UNCHANGED <<genVars, rateVars, fnVars>>

\* __init__ of both classes: rfm.init() is called outside redirect_stdout
Construct ==
  /\ cpc = "construct"
  /\ IF KUMO_AVAILABLE
       THEN \E ok \in BOOLEAN, prints \in BOOLEAN :
              /\ init_ok' = ok
              /\ stdout' = stdout \o ToStdout(SdkStream(FALSE),
                                              SdkOutput(prints))
              /\ stderr' = (stderr \o ToStderr(SdkStream(FALSE),
                                               SdkOutput(prints)))
                             \o <<IF ok THEN "init_done" ELSE "init_issue">>
       ELSE UNCHANGED <<init_ok, stdout, stderr>>
  /\ cpc' = "load"
  /\ UNCHANGED <<script, argc, prediction_type, arg1_json_ok, arg2_ok, arg3_ok,
                 csv_ok, KUMO_AVAILABLE, loaded, model, exit_status,
                 result_source, sdk_calls, sdk_outcome, number_products,
                 cols_used>>
  /\ UNCHANGED <<genVars, rateVars, fnVars>>

\* the columns load_csv_data reads by name
LoadColumns(which) ==
  IF which = "predictions"
    THEN Use(Use(NoColumns, "orders", {"order_timestamp"}),
             "order_items", {"product_id", "quantity"})
    ELSE Use(NoColumns, "orders", {"order_timestamp"})

\* load_csv_data, and "if not load_csv_data(): sys.exit(1)" of main
LoadCsv ==
  /\ cpc = "load"
  /\ IF csv_ok
       THEN /\ loaded' = TRUE
            /\ cols_used' = LoadColumns(script)
            /\ stderr' = Append(stderr, "loaded")
            /\ cpc' = "graph"
            /\ UNCHANGED exit_status
       ELSE /\ stderr' = Append(stderr, "load_error")
            /\ Exit(1)
            /\ UNCHANGED <<loaded, cols_used>>
  /\ UNCHANGED <<script, argc, prediction_type, arg1_json_ok, arg2_ok, arg3_ok,
                 csv_ok, KUMO_AVAILABLE, init_ok, model, stdout,
                 result_source, sdk_calls, sdk_outcome, number_products>>
  /\ UNCHANGED <<genVars, rateVars, fnVars>>

\* where main goes after create_kumo_graph, whose result it does not read
AfterCreateGraph(created) == "dispatch"

\* a variant in which a failed creation leaves a model behind
ModelAlwaysSet(created) == TRUE

\* self.model after create_kumo_graph / create_personalized_kumo_graph: both
\* assign it as the last statement that can raise, so it is set exactly when
\* they return True
ModelAfterCreate(created) == created

\* create_kumo_graph and create_personalized_kumo_graph: the SDK calls run
\* inside redirect_stdout
CreateGraph ==
  /\ cpc = "graph"
  /\ IF KUMO_AVAILABLE
       THEN \E created \in BOOLEAN, prints \in BOOLEAN :
              /\ model' = ModelAfterCreate(created)
              /\ stdout' = stdout \o ToStdout(SdkStream(TRUE),
                                              SdkOutput(prints))
              /\ stderr' = (stderr \o ToStderr(SdkStream(TRUE),
                                               SdkOutput(prints)))
                             \o <<IF created THEN "graph_created"
                                             ELSE "graph_error">>
              /\ cols_used' =
                   IF script = "ingredients"
                     THEN Use(cols_used, "order_items", {"product_id"})
                     ELSE cols_used
              /\ cpc' = AfterCreateGraph(created)
       ELSE /\ cpc' = AfterCreateGraph(FALSE)
            /\ UNCHANGED <<model, stdout, stderr, cols_used>>
  /\ UNCHANGED <<script, argc, prediction_type, arg1_json_ok, arg2_ok, arg3_ok,
                 csv_ok, KUMO_AVAILABLE, init_ok, loaded, exit_status,
                 result_source, sdk_calls, sdk_outcome, number_products>>
  /\ UNCHANGED <<genVars, rateVars, fnVars>>

Merge(a, b) == [t \in Tables |-> a[t] \cup b[t]]

\* the columns each piece of code reads or names in a query
UserQueryColumns == Use(NoColumns, "users", {"user_id"})
ProductLookupColumns == Use(NoColumns, "products", ProductColumnsRead)
FallbackPredictionColumns ==
  Use(ProductLookupColumns, "users",
      {"user_id", "dietary_preference", "household_size"})
FallbackRecommendationColumns ==
  Use(ProductLookupColumns, "users", {"user_id", "dietary_preference"})
QuantityQueryColumns == Use(UserQueryColumns, "order_items", {"quantity"})
ProductsQueryColumns == Use(UserQueryColumns, "order_items", {"product_id"})
DeliveryQueryColumns == Use(UserQueryColumns, "orders", {"delivery_window"})

\* get_product_substitution_rate on the generator's files: it filters
\* order_items by product_id; when the product has order items it looks for
\* the column 'substituted' and, not finding it, reads the product's price
RateColumns(has_items) ==
  IF has_items
    THEN Use(Use(NoColumns, "order_items", {"product_id", "substituted"}),
             "products", {"product_id", "price_per_unit", "category"})
    ELSE Use(NoColumns, "order_items", {"product_id"})

\* a variant of DeliverySource without the test for an empty result
DeliverySourceIgnoringEmpty(outcome) ==
  IF outcome \in {"raise", "no_attr"} THEN "fallback" ELSE "sdk"

\* which path builds the list an operation returns, by the outcome of its
\* (last) predict call
CartSource(outcome) ==
  IF outcome \in {"raise", "no_attr"} THEN "fallback" ELSE "sdk"
RecommendationsSource(outcome) ==
  IF outcome \in {"raise", "no_attr"} THEN "fallback" ELSE "sdk"
DeliverySource(outcome) ==
  IF outcome \in {"raise", "no_attr", "empty"} THEN "fallback" ELSE "sdk"
RankSource(outcome) ==
  IF outcome \in {"raise", "no_attr"} THEN "fallback" ELSE "sdk"

\* predict_cart_items, lines 125-131: number_products after the quantity query
NumberProducts(outcome, predicted) ==
  IF outcome = "ok" THEN predicted ELSE DefaultNumberProducts

\* one model.predict call inside redirect_stdout: it is counted, its outcome
\* recorded and its own output written
Predict(q, outcome, prints) ==
  /\ sdk_calls' = [sdk_calls EXCEPT ![q] = @ + 1]
  /\ sdk_outcome' = [sdk_outcome EXCEPT ![q] = outcome]
  /\ stdout' = stdout \o ToStdout(SdkStream(TRUE), SdkOutput(prints))

\* what an operation writes to standard error on its two paths
PathMessage(source) ==
  IF source = "sdk" THEN "kumo_returned" ELSE "kumo_failed_using_fallback"

\* main, lines 598-609: batch-substitution-rates; the ids are parsed after the
\* data was loaded, and a ValueError is not caught
\* get_product_substitution_rate reads order_items.product_id, then looks for
\* the column 'substituted' when the product has order items, then prices
DispatchBatch ==
  /\ cpc = "dispatch"
  /\ script = "predictions"
  /\ prediction_type = "batch-substitution-rates"
  /\ IF ~arg2_ok
       THEN /\ stderr' = Append(stderr, "traceback")
            /\ Exit(1)
            /\ UNCHANGED <<stdout, cols_used>>
       ELSE /\ \E has_items \in BOOLEAN :
                 cols_used' = Merge(cols_used, RateColumns(has_items))
            /\ stdout' = Append(stdout, "json")
            /\ Exit(0)
            /\ UNCHANGED stderr
  /\ UNCHANGED <<script, argc, prediction_type, arg1_json_ok, arg2_ok, arg3_ok,
                 csv_ok, KUMO_AVAILABLE, init_ok, loaded, model,
                 result_source, sdk_calls, sdk_outcome, number_products>>
  /\ UNCHANGED <<genVars, rateVars, fnVars>>

\* main, lines 619-623: substitution-rate
DispatchRate ==
  /\ cpc = "dispatch"
  /\ script = "predictions"
  /\ prediction_type = "substitution-rate"
  /\ \E has_items \in BOOLEAN :
       cols_used' = Merge(cols_used, RateColumns(has_items))
  /\ stdout' = Append(stdout, "json")
  /\ Exit(0)
  /\ UNCHANGED <<script, argc, prediction_type, arg1_json_ok, arg2_ok, arg3_ok,
                 csv_ok, KUMO_AVAILABLE, init_ok, loaded, model, stderr,
                 result_source, sdk_calls, sdk_outcome, number_products>>
  /\ UNCHANGED <<genVars, rateVars, fnVars>>

\* main, lines 625-627: no such prediction type
DispatchInvalid ==
  /\ cpc = "dispatch"
  /\ script = "predictions"
  /\ prediction_type \notin PredictionTypes
  /\ stdout' = Append(stdout, "invalid_type")
  /\ Exit(1)
  /\ UNCHANGED <<script, argc, prediction_type, arg1_json_ok, arg2_ok, arg3_ok,
                 csv_ok, KUMO_AVAILABLE, init_ok, loaded, model, stderr,
                 result_source, sdk_calls, sdk_outcome, number_products,
                 cols_used>>
  /\ UNCHANGED <<genVars, rateVars, fnVars>>

\* predict_cart_items without a model: the fallback; with one: the quantity
\* query, whose failure of any kind sets number_products to 20
CartBegin ==
  /\ cpc = "dispatch"
  /\ script = "predictions"
  /\ prediction_type = "cart"
  /\ IF model /\ KUMO_AVAILABLE
       THEN /\ \E outcome \in PredictOutcomes, prints \in BOOLEAN,
                  predicted \in PredictedQuantities :
                 /\ Predict("quantity", outcome, prints)
                 /\ stderr' = stderr \o ToStderr(SdkStream(TRUE),
                                                 SdkOutput(prints))
                 /\ number_products' = NumberProducts(outcome, predicted)
            /\ cols_used' = Merge(cols_used, QuantityQueryColumns)
            /\ cpc' = "cart_products"
            /\ UNCHANGED result_source
       ELSE /\ result_source' = "fallback"
            /\ cols_used' = Merge(cols_used, FallbackPredictionColumns)
            /\ cpc' = "print"
            /\ UNCHANGED <<stdout, stderr, sdk_calls, sdk_outcome,
                           number_products>>
  /\ UNCHANGED <<script, argc, prediction_type, arg1_json_ok, arg2_ok, arg3_ok,
                 csv_ok, KUMO_AVAILABLE, init_ok, loaded, model, exit_status>>
  /\ UNCHANGED <<genVars, rateVars, fnVars>>

\* predict_cart_items, lines 133-183: the products query and the result
CartProducts ==
  /\ cpc = "cart_products"
  /\ \E outcome \in PredictOutcomes, prints \in BOOLEAN :
       /\ Predict("products", outcome, prints)
       /\ result_source' = CartSource(outcome)
       /\ stderr' = (stderr \o ToStderr(SdkStream(TRUE), SdkOutput(prints)))
                      \o <<PathMessage(CartSource(outcome))>>
       /\ cols_used' =
            Merge(Merge(cols_used, ProductsQueryColumns),
                  IF CartSource(outcome) = "fallback"
                    THEN FallbackPredictionColumns
                    ELSE IF outcome = "ok" THEN ProductLookupColumns
                                           ELSE NoColumns)
  /\ cpc' = "print"
  /\ UNCHANGED <<script, argc, prediction_type, arg1_json_ok, arg2_ok, arg3_ok,
                 csv_ok, KUMO_AVAILABLE, init_ok, loaded, model, exit_status,
                 number_products>>
  /\ UNCHANGED <<genVars, rateVars, fnVars>>

\* predict_recommendations
Recommendations ==
  /\ cpc = "dispatch"
  /\ script = "predictions"
  /\ prediction_type = "recommendations"
  /\ IF model /\ KUMO_AVAILABLE
       THEN \E outcome \in PredictOutcomes, prints \in BOOLEAN :
              /\ Predict("recommendations", outcome, prints)
              /\ result_source' = RecommendationsSource(outcome)
              /\ stderr' = (stderr \o ToStderr(SdkStream(TRUE),
                                               SdkOutput(prints)))
                             \o <<PathMessage(RecommendationsSource(outcome))>>
              /\ cols_used' =
                   Merge(Merge(cols_used, ProductsQueryColumns),
                         IF RecommendationsSource(outcome) = "fallback"
                           THEN FallbackRecommendationColumns
                           ELSE IF outcome = "ok" THEN ProductLookupColumns
                                                  ELSE NoColumns)
       ELSE /\ result_source' = "fallback"
            /\ cols_used' = Merge(cols_used, FallbackRecommendationColumns)
            /\ UNCHANGED <<stdout, stderr, sdk_calls, sdk_outcome>>
  /\ cpc' = "print"
  /\ UNCHANGED <<script, argc, prediction_type, arg1_json_ok, arg2_ok, arg3_ok,
                 csv_ok, KUMO_AVAILABLE, init_ok, loaded, model, exit_status,
                 number_products>>
  /\ UNCHANGED <<genVars, rateVars, fnVars>>

\* predict_delivery_times; _fallback_delivery_times reads no table
DeliveryTimes ==
  /\ cpc = "dispatch"
  /\ script = "predictions"
  /\ prediction_type = "delivery-times"
  /\ IF model /\ KUMO_AVAILABLE
       THEN \E outcome \in PredictOutcomes, prints \in BOOLEAN :
              /\ Predict("delivery", outcome, prints)
              /\ result_source' = DeliverySource(outcome)
              /\ stderr' = (stderr \o ToStderr(SdkStream(TRUE),
                                               SdkOutput(prints)))
                             \o <<PathMessage(DeliverySource(outcome))>>
              /\ cols_used' = Merge(cols_used, DeliveryQueryColumns)
       ELSE /\ result_source' = "fallback"
            /\ UNCHANGED <<stdout, stderr, sdk_calls, sdk_outcome, cols_used>>
  /\ cpc' = "print"
  /\ UNCHANGED <<script, argc, prediction_type, arg1_json_ok, arg2_ok, arg3_ok,
                 csv_ok, KUMO_AVAILABLE, init_ok, loaded, model, exit_status,
                 number_products>>
  /\ UNCHANGED <<genVars, rateVars, fnVars>>

\* rank_products_for_user
RankProducts ==
  /\ cpc = "dispatch"
  /\ script = "ingredients"
  /\ IF ~model \/ ~KUMO_AVAILABLE
       THEN /\ result_source' = "fallback"
            /\ cols_used' = Merge(cols_used, ProductLookupColumns)
            /\ UNCHANGED <<stdout, stderr, sdk_calls, sdk_outcome>>
       ELSE \E outcome \in PredictOutcomes, prints \in BOOLEAN :
              /\ Predict("ranking", outcome, prints)
              /\ result_source' = RankSource(outcome)
              /\ stderr' = (stderr \o ToStderr(SdkStream(TRUE),
                                               SdkOutput(prints)))
                             \o <<PathMessage(RankSource(outcome))>>
              /\ cols_used' =
                   Merge(Merge(cols_used, ProductsQueryColumns),
                         ProductLookupColumns)
  /\ cpc' = "print"
  /\ UNCHANGED <<script, argc, prediction_type, arg1_json_ok, arg2_ok, arg3_ok,
                 csv_ok, KUMO_AVAILABLE, init_ok, loaded, model, exit_status,
                 number_products>>
  /\ UNCHANGED <<genVars, rateVars, fnVars>>

\* "print(json.dumps(...))" and the end of main
PrintJson ==
  /\ cpc = "print"
  /\ stdout' = Append(stdout, "json")
  /\ Exit(0)
  /\ UNCHANGED <<script, argc, prediction_type, arg1_json_ok, arg2_ok, arg3_ok,
                 csv_ok, KUMO_AVAILABLE, init_ok, loaded, model, stderr,
                 result_source, sdk_calls, sdk_outcome, number_products,
                 cols_used>>
  /\ UNCHANGED <<genVars, rateVars, fnVars>>

NextCli ==
  \/ Import
  \/ PredictionsUsage
  \/ PredictionsParseArgs
  \/ IngredientsUsage
  \/ IngredientsParseArgs
  \/ Construct
  \/ LoadCsv
  \/ CreateGraph
  \/ DispatchBatch
  \/ DispatchRate
  \/ DispatchInvalid
  \/ CartBegin
  \/ CartProducts
  \/ Recommendations
  \/ DeliveryTimes
  \/ RankProducts
  \/ PrintJson

(***************************************************************************)
(* get_product_substitution_rate (kumo_predictions.py, lines 487-567).     *)
(* Rates are fractions num/den: a heuristic value is a number of           *)
(* thousandths (round(..., 3)), a data-derived value is a mean over rows.  *)
(* The random generator is a small deterministic one: seed(n) puts it in a *)
(* state that depends on n alone, each draw advances the state.            *)
(***************************************************************************)
RatePids == 1..MaxRateProductId
Draws == 0..19
\* random.seed(n)
Seed(n) == (17 * n) % Cardinality(Draws)
NextState(s) == (s + 1) % Cardinality(Draws)
\* random.random(), in percent
Random(s) == 5 * s
\* a variant of Uniform that does not scale the draw to [0, 1)
UniformUnscaled(lo, hi, s) == lo + (hi - lo) * s
\* round(random.uniform(lo, hi), 3), in thousandths
Uniform(lo, hi, s) == lo + ((hi - lo) * s) \div Cardinality(Draws)

Rate(num, den) == [num |-> num, den |-> den]
NoRate == Rate(0, 0)
NoResult == [rate |-> NoRate, band |-> <<0, 0>>, heuristic |-> FALSE]
Heuristic(band, s) ==
  [rate |-> Rate(Uniform(band[1], band[2], s), 1000), band |-> band,
   heuristic |-> TRUE, rng |-> NextState(s)]

\* "if random.random() < t1: ... elif random.random() < t2: ... else: ..."
\* every test and every uniform draws once
ThreeBands(t1, t2, b1, b2, b3, s) ==
  IF Random(s) < t1
    THEN Heuristic(b1, NextState(s))
    ELSE IF Random(NextState(s)) < t2
           THEN Heuristic(b2, NextState(NextState(s)))
           ELSE Heuristic(b3, NextState(NextState(s)))
\* "if random.random() < t1: ... else: ..."
TwoBands(t1, b1, b2, s) ==
  IF Random(s) < t1 THEN Heuristic(b1, NextState(s))
                    ELSE Heuristic(b2, NextState(s))

\* the tables a predictor may hold
OrderItemsKinds ==
  {"none", "no_product_id", "with_substituted", "without_substituted"}
OrderItemRows == [product_id : RatePids, substituted : {0, 1}]
SeqsUpTo(S, n) == UNION {[1..k -> S] : k \in 0..n}
Prices ==
  {[price |-> p, is_number |-> TRUE] : p \in {3, 7, 12}}
    \cup {[price |-> 0, is_number |-> FALSE]}
PriceTables == UNION {[P -> Prices] : P \in SUBSET RatePids}

\* a variant of Seeded for a branch that draws without seeding
NotSeeded(state, product_id) == state

\* the state of the generator after the "random.seed(product_id)" that every
\* heuristic branch and the except clause run before they draw
Seeded(state, product_id) == Seed(product_id)

\* the except clause, lines 562-567
ExceptPath(state, product_id) ==
  Heuristic(<<10, 50>>, Seeded(state, product_id))

\* product_orders['substituted'].mean()
Mean(rows) == Rate(SumSeq([i \in DOMAIN rows |-> rows[i].substituted]), Len(rows))

get_product_substitution_rate(product_id, state) ==
  LET s == Seeded(state, product_id)
      product_orders ==
        SelectSeq(order_items_rows, LAMBDA r : r.product_id = product_id)
  IN  IF order_items_kind = "none"
        THEN ThreeBands(75, 90, <<10, 60>>, <<80, 150>>, <<160, 300>>, s)
      ELSE IF order_items_kind = "no_product_id"
        THEN ExceptPath(state, product_id)
      ELSE IF product_orders = <<>>
        THEN ThreeBands(70, 90, <<10, 70>>, <<80, 150>>, <<160, 350>>, s)
      ELSE IF order_items_kind = "with_substituted"
        THEN [rate |-> Mean(product_orders), band |-> <<0, 0>>,
              heuristic |-> FALSE, rng |-> state]
      ELSE IF products_loaded /\ product_id \in DOMAIN product_prices
        THEN LET price == product_prices[product_id]
             IN  IF ~price.is_number
                   THEN ExceptPath(s, product_id)
                 ELSE IF price.price > 10
                   THEN TwoBands(80, <<10, 60>>, <<70, 120>>, s)
                 ELSE IF price.price > 5
                   THEN ThreeBands(60, 85, <<10, 70>>, <<80, 180>>,
                                   <<190, 300>>, s)
                 ELSE ThreeBands(50, 75, <<10, 70>>, <<80, 200>>,
                                 <<210, 400>>, s)
      ELSE Heuristic(<<10, 50>>, s)

RateOff ==
  /\ rpc = "off"
  /\ order_items_kind = "none"
  /\ order_items_rows = <<>>
  /\ products_loaded = FALSE
  /\ product_prices = <<>>
  /\ rng_state = 0
  /\ rate_calls = [p \in RatePids |-> 0]
  /\ first_rate = [p \in RatePids |-> NoRate]
  /\ last_result = [p \in RatePids |-> NoResult]

\* one call of get_product_substitution_rate
RateCall ==
  /\ rpc = "ready"
  /\ \E product_id \in RatePids :
       LET r == get_product_substitution_rate(product_id, rng_state)
       IN  /\ rate_calls[product_id] < MaxRateCalls
           /\ rate_calls' = [rate_calls EXCEPT ![product_id] = @ + 1]
           /\ first_rate' =
                IF rate_calls[product_id] = 0
                  THEN [first_rate EXCEPT ![product_id] = r.rate]
                  ELSE first_rate
           /\ last_result' =
                [last_result EXCEPT
                   ![product_id] = [rate |-> r.rate, band |-> r.band,
                                    heuristic |-> r.heuristic]]
           /\ rng_state' = r.rng
  /\ UNCHANGED <<rpc, order_items_kind, order_items_rows, products_loaded,
                 product_prices>>
  /\ UNCHANGED <<genVars, cliVars, fnVars>>

\* any other use of the module-level generator between two calls
OtherRandom ==
  /\ rpc = "ready"
  /\ \E s \in Draws : rng_state' = s
  /\ UNCHANGED <<rpc, order_items_kind, order_items_rows, products_loaded,
                 product_prices, rate_calls, first_rate, last_result>>
  /\ UNCHANGED <<genVars, cliVars, fnVars>>

NextRate == RateCall \/ OtherRandom

(***************************************************************************)
(* Single functions, each called once on arguments drawn from small sets.  *)
(***************************************************************************)
\* no single function is called
FnOff ==
  /\ fn = "off"
  /\ fn_args = <<>>
  /\ fn_returned = FALSE
  /\ fn_result = <<>>

\* none of the programs runs
ProgramsOff ==
  /\ gpc = "off"
  /\ products_per_category = 0
  /\ batch_size = 0
  /\ GenStart
  /\ CliOff
  /\ RateOff

\* the call returns result
Return(result) ==
  /\ fn_returned' = TRUE
  /\ fn_result' = result
  /\ UNCHANGED <<fn, fn_args>>
  /\ UNCHANGED <<genVars, cliVars, rateVars>>

(***************************************************************************)
(* rank_products_for_user (kumo_personalized_ingredients.py, lines 96-183) *)
(* products_df is the set of its product ids.                              *)
(***************************************************************************)
RankIds == 1..MaxRankId
RankLists == SeqsUpTo(RankIds, MaxRankLen)

\* a variant of FallbackRanking that ranks a product by its position in the
\* result
FallbackRankingDense(product_ids, catalog) ==
  LET at == SelectSeq([i \in 1..Len(product_ids) |-> i],
                      LAMBDA i : product_ids[i] \in catalog)
  IN  [j \in 1..Len(at) |->
         [product_id |-> product_ids[at[j]], kumo_rank |-> j, by |-> "input"]]

\* lines 100-115 and 168-183: the requested products that exist, in input
\* order, each ranked by its position in the input
FallbackRanking(product_ids, catalog) ==
  LET at == SelectSeq([i \in 1..Len(product_ids) |-> i],
                      LAMBDA i : product_ids[i] \in catalog)
  IN  [j \in 1..Len(at) |->
         [product_id |-> product_ids[at[j]], kumo_rank |-> at[j],
          by |-> "input"]]

\* lines 127-142: the ids of the SDK's list that were requested and exist,
\* each ranked by its position in the SDK's list
KumoRanked(ranked_product_ids, product_ids, catalog) ==
  LET at == SelectSeq([i \in 1..Len(ranked_product_ids) |-> i],
                      LAMBDA i : /\ ranked_product_ids[i] \in Range(product_ids)
                                 /\ ranked_product_ids[i] \in catalog)
  IN  [j \in 1..Len(at) |->
         [product_id |-> ranked_product_ids[at[j]], kumo_rank |-> at[j],
          by |-> "sdk"]]

\* lines 145-160: the requested products that are not in ranked_ids and
\* exist are appended, each ranked len(results) + 1
RECURSIVE AddMissing(_, _, _, _)
AddMissing(results, product_ids, ranked_ids, catalog) ==
  IF product_ids = <<>>
    THEN results
    ELSE LET product_id == Head(product_ids)
         IN  IF product_id \notin ranked_ids /\ product_id \in catalog
               THEN AddMissing(
                      Append(results, [product_id |-> product_id,
                                       kumo_rank |-> Len(results) + 1,
                                       by |-> "missing"]),
                      Tail(product_ids), ranked_ids, catalog)
               ELSE AddMissing(results, Tail(product_ids), ranked_ids, catalog)

\* lines 126-163: the result on the SDK path
KumoRanking(ranked_product_ids, product_ids, catalog) ==
  LET results == KumoRanked(ranked_product_ids, product_ids, catalog)
  IN  AddMissing(results, product_ids, Ids(results), catalog)

InitRank ==
  /\ ProgramsOff
  /\ fn = "rank_products_for_user"
  /\ fn_args \in [product_ids : RankLists, catalog : SUBSET RankIds]
  /\ fn_returned = FALSE
  /\ fn_result = <<>>

\* the model exists and predict returns a ranked list
RankOnSdkPath ==
  /\ fn = "rank_products_for_user"
  /\ ~fn_returned
  /\ \E ranked_product_ids \in RankLists :
       Return([path |-> "sdk", ranked |-> ranked_product_ids,
               results |-> KumoRanking(ranked_product_ids, fn_args.product_ids,
                                       fn_args.catalog)])

\* there is no model, or predict raises
RankOnFallbackPath ==
  /\ fn = "rank_products_for_user"
  /\ ~fn_returned
  /\ Return([path |-> "fallback", ranked |-> <<>>,
             results |-> FallbackRanking(fn_args.product_ids, fn_args.catalog)])

NextRank == RankOnSdkPath \/ RankOnFallbackPath

(***************************************************************************)
(* Delivery slots (kumo_predictions.py): the label and date of one slot,   *)
(* lines 292-302 of predict_delivery_times and 465-473 of                  *)
(* _fallback_delivery_times, which are the same code.                      *)
(***************************************************************************)
Hours == 0..23
Minutes == 0..59

\* the label of a slot that starts at hour, and the days added to the
\* current date
SlotDate(current_hour, current_minute, hour) ==
  IF current_hour > hour \/ (current_hour = hour /\ current_minute >= 30)
    THEN [date_label |-> "Tomorrow", days |-> 1]
    ELSE [date_label |-> "Today", days |-> 0]

InitSlotDate ==
  /\ ProgramsOff
  /\ fn = "slot_date"
  /\ fn_args \in [current_hour : Hours, current_minute : Minutes, hour : Hours]
  /\ fn_returned = FALSE
  /\ fn_result = <<>>

LabelSlot ==
  /\ fn = "slot_date"
  /\ ~fn_returned
  /\ Return(SlotDate(fn_args.current_hour, fn_args.current_minute,
                     fn_args.hour))

NextSlotDate == LabelSlot

(***************************************************************************)
(* generate_orders: the timestamp of one order, in whole days counted from *)
(* start_date = end_date - 730 days (the time of day is carried along      *)
(* unchanged by the shift, so days decide the comparison with end_date).   *)
(***************************************************************************)
\* timedelta(days=730)
TwoYears == 730

Weekdays == 0..6

\* datetime.weekday() of the date `day` days after start_date
Weekday(start_weekday, day) == (start_weekday + day) % 7

\* fake.date_time_between(start_date, end_date)
DateTimeBetween == 0..TwoYears

\* the 70% branch: the drawn date moved forward to the preferred weekday
PreferredDayDate(random_date, start_weekday, preferred_weekday) ==
  LET days_ahead ==
        (preferred_weekday - Weekday(start_weekday, random_date)) % 7
  IN  IF days_ahead = 0 THEN random_date ELSE random_date + days_ahead

InitOrderDate ==
  /\ ProgramsOff
  /\ fn = "order_timestamp"
  /\ fn_args \in [random_date : DateTimeBetween, start_weekday : Weekdays,
                  preferred_weekday : Weekdays]
  /\ fn_returned = FALSE
  /\ fn_result = <<>>

\* random.random() < 0.7
OrderOnPreferredDay ==
  /\ fn = "order_timestamp"
  /\ ~fn_returned
  /\ Return([shifted |-> TRUE,
             target_date |-> PreferredDayDate(fn_args.random_date,
                                              fn_args.start_weekday,
                                              fn_args.preferred_weekday)])

\* the else branch: a random day
OrderOnRandomDay ==
  /\ fn = "order_timestamp"
  /\ ~fn_returned
  /\ Return([shifted |-> FALSE, target_date |-> fn_args.random_date])

NextOrderDate == OrderOnPreferredDay \/ OrderOnRandomDay

(***************************************************************************)
(* predict_delivery_times and _fallback_delivery_times.  A string is a     *)
(* sequence of one-character strings; a score is counted in tenths.        *)
(***************************************************************************)
MaxSlotRows == 2
MaxNumSlots == 6

DigitChars == <<"0", "1", "2", "3", "4", "5", "6", "7", "8", "9">>

\* the text of a number below 100
Digits(n) ==
  IF n < 10 THEN <<DigitChars[n + 1]>>
            ELSE <<DigitChars[(n \div 10) + 1], DigitChars[(n % 10) + 1]>>

\* the start times "12am", "1am" .. "11am", "12pm", "1pm" .. "11pm"
StartLabels ==
  {Digits(n) \o suffix : n \in 1..12, suffix \in {<<"a", "m">>, <<"p", "m">>}}

\* a variant that never takes the branch of the twelfth hour
NeverTwelve(start_time_str) == FALSE

\* start_time_str.startswith('12')
StartsWithTwelve(start_time_str) ==
  Len(start_time_str) >= 2 /\ SubSeq(start_time_str, 1, 2) = <<"1", "2">>

\* lines 282-290 and 455-463: <<hour>> for the hour of a window's start, or
\* << >> where int() raises ValueError
StartHour(time_window) ==
  LET RECURSIVE Before(_, _)
      \* s.split(sep)[0]
      Before(s, sep) ==
        IF s = <<>> \/ Head(s) = sep THEN <<>>
        ELSE <<Head(s)>> \o Before(Tail(s), sep)
      RECURSIVE Strip(_)
      Strip(s) ==
        IF s = <<>> THEN s
        ELSE IF Head(s) = " " THEN Strip(Tail(s))
        ELSE IF s[Len(s)] = " " THEN Strip(SubSeq(s, 1, Len(s) - 1))
        ELSE s
      Lower(s) ==
        [i \in DOMAIN s |->
           CASE s[i] = "A" -> "a" [] s[i] = "P" -> "p" [] s[i] = "M" -> "m"
             [] OTHER -> s[i]]
      Contains(s, sub) ==
        \E i \in 1..(Len(s) - Len(sub) + 1) :
          SubSeq(s, i, i + Len(sub) - 1) = sub
      RECURSIVE Replace(_, _)
      \* s.replace(old, '')
      Replace(s, old) ==
        IF Len(s) < Len(old) THEN s
        ELSE IF SubSeq(s, 1, Len(old)) = old
          THEN Replace(SubSeq(s, Len(old) + 1, Len(s)), old)
        ELSE <<Head(s)>> \o Replace(Tail(s), old)
      RECURSIVE Value(_)
      Value(s) ==
        IF s = <<>> THEN 0
        ELSE 10 * Value(SubSeq(s, 1, Len(s) - 1))
               + (CHOOSE d \in 0..9 : DigitChars[d + 1] = s[Len(s)])
      \* int(s): surrounding blanks are ignored, the rest must be digits
      int(s) ==
        LET t == Strip(s)
        IN  IF t # <<>> /\ \A i \in DOMAIN t : t[i] \in Range(DigitChars)
              THEN <<Value(t)>> ELSE <<>>
      Plus(n, k) == IF n = <<>> THEN n ELSE <<n[1] + k>>
      start_time_str == Strip(Before(time_window, "-"))
      number == int(Replace(Replace(start_time_str, <<"p", "m">>),
                            <<"a", "m">>))
  IN  IF Contains(Lower(start_time_str), <<"p", "m">>)
           /\ ~StartsWithTwelve(start_time_str)
        THEN Plus(number, 12)
      ELSE IF Contains(Lower(start_time_str), <<"a", "m">>)
                /\ StartsWithTwelve(start_time_str)
        THEN <<0>>
      ELSE number

\* one pass of the loop body, lines 276-313 and 454-483: the slots a window
\* adds to processed_slots; actual_date.replace(hour=hour) raises ValueError
\* for an hour above 23
ProcessSlot(time_window, score, current_time) ==
  LET parsed == StartHour(time_window)
      hour == parsed[1]
  IN  IF parsed = <<>> THEN <<>>
      ELSE IF hour > 23 THEN <<>>
      ELSE LET slot == SlotDate(current_time.hour, current_time.minute, hour)
           IN  <<[time_window |-> time_window,
                  date_label |-> slot.date_label,
                  days |-> slot.days, hour |-> hour, score |-> score]>>

\* a variant that leaves the slots in the order of the answer
Unsorted(processed_slots) == processed_slots

\* processed_slots.sort(key=score, reverse=True): a stable sort
SortByScore(processed_slots) ==
  LET Insert(x, t) ==
        LET k == Cardinality({i \in DOMAIN t : t[i].score >= x.score})
        IN  SubSeq(t, 1, k) \o <<x>> \o SubSeq(t, k + 1, Len(t))
      RECURSIVE Sorted(_)
      Sorted(s) ==
        IF s = <<>> THEN <<>>
        ELSE Insert(s[Len(s)], Sorted(SubSeq(s, 1, Len(s) - 1)))
  IN  Sorted(processed_slots)

\* seq[:n], and DataFrame.head(n): the first n elements, or all but the last
\* -n for a negative n
Slice(seq, n) ==
  SubSeq(seq, 1, IF n >= 0 THEN Min(n, Len(seq)) ELSE Max(Len(seq) + n, 0))

\* predict_delivery_times on the SDK path, lines 273-320
SdkDeliveryTimes(rows, num_slots, current_time) ==
  LET processed_slots ==
        Flatten([i \in DOMAIN rows |->
                   IF rows[i].delivery_window \in {<<>>, <<"n", "a", "n">>}
                     THEN <<>>
                     ELSE ProcessSlot(rows[i].delivery_window, rows[i].score,
                                      current_time)])
  IN  [path |-> "sdk", processed_slots |-> processed_slots,
       result |-> Slice(SortByScore(processed_slots), num_slots)]

default_slots ==
  << <<"9", "a", "m", "-", "1", "1", "a", "m">>,
     <<"1", "1", "a", "m", "-", "1", "p", "m">>,
     <<"1", "p", "m", "-", "3", "p", "m">>,
     <<"3", "p", "m", "-", "5", "p", "m">>,
     <<"5", "p", "m", "-", "7", "p", "m">> >>

\* _fallback_delivery_times, lines 451-485: score 0.7 - i * 0.1
FallbackDeliveryTimes(num_slots, current_time) ==
  LET windows == Slice(default_slots, num_slots)
      processed_slots ==
        Flatten([j \in DOMAIN windows |->
                   ProcessSlot(windows[j], 7 - (j - 1), current_time)])
  IN  [path |-> "fallback", processed_slots |-> processed_slots,
       result |-> processed_slots]

\* the calls: an answer of up to MaxSlotRows rows, whose windows start at one
\* of the 24 start times or at a text that int() or datetime.replace rejects
\* ('' and 'nan' are skipped at line 277), made at one of four times of day
InitDelivery ==
  LET Unparseable ==
        {<<"n", "o", "o", "n">>, <<"1", "P", "M">>, <<"1", "3", "p", "m">>,
         <<"9", ":", "3", "0", "a", "m">>}
      TimeWindows ==
        {start \o <<"-", "7", "p", "m">> :
           start \in StartLabels \union Unparseable}
          \union {<<>>, <<"n", "a", "n">>}
      DeliveryScores == {3, 5}
      CallTimes == [hour : {9, 16}, minute : {15, 45}]
  IN  /\ ProgramsOff
      /\ fn = "predict_delivery_times"
      /\ fn_args \in [rows : SeqsUpTo([delivery_window : TimeWindows,
                                       score : DeliveryScores], MaxSlotRows),
                      num_slots : 0..MaxNumSlots,
                      current_time : CallTimes]
      /\ fn_returned = FALSE
      /\ fn_result = <<>>

\* the SDK answered with a non-empty result
DeliveryOnSdkPath ==
  /\ fn = "predict_delivery_times"
  /\ ~fn_returned
  /\ fn_args.rows # <<>>
  /\ Return(SdkDeliveryTimes(fn_args.rows, fn_args.num_slots,
                             fn_args.current_time))

\* no model, a failed predict call, or an empty result
DeliveryOnFallbackPath ==
  /\ fn = "predict_delivery_times"
  /\ ~fn_returned
  /\ Return(FallbackDeliveryTimes(fn_args.num_slots, fn_args.current_time))

NextDelivery == DeliveryOnSdkPath \/ DeliveryOnFallbackPath

(***************************************************************************)
(* _fallback_predictions and _fallback_recommendations.  A confidence is   *)
(* counted in hundredths.                                                  *)
(***************************************************************************)
MaxCatalog == 3
MaxNumProducts == 3

\* a variant of SortValues that leaves the rows in any order
AnyOrder(df, ascending) ==
  {[i \in DOMAIN df |-> df[p[i]]] : p \in Permutations(DOMAIN df)}

\* DataFrame.sort_values('price_per_unit', ascending=..): the default
\* quicksort is not stable, so rows of equal price come in any order
SortValues(df, ascending) ==
  {s \in {[i \in DOMAIN df |-> df[p[i]]] : p \in Permutations(DOMAIN df)} :
     \A i, j \in DOMAIN s :
       i < j => IF ascending THEN s[i].price_per_unit <= s[j].price_per_unit
                             ELSE s[i].price_per_unit >= s[j].price_per_unit}

\* suitable_products[suitable_products['category'] == 'Produce'] for a
\* vegetarian user, the whole catalog otherwise
SuitableProducts(products_df, dietary_pref) ==
  IF dietary_pref = "vegetarian"
    THEN Flatten([i \in DOMAIN products_df |->
                    IF products_df[i].category = "Produce"
                      THEN <<products_df[i]>> ELSE <<>>])
    ELSE products_df

\* _fallback_predictions, lines 331-386: the lists it can return
FallbackPredictions(tables_loaded, user_row, products_df, num_predictions) ==
  IF ~tables_loaded \/ user_row = <<>> THEN {<<>>}
  ELSE LET user == user_row[1]
           dietary_pref == user.dietary_preference
           suitable_products == SuitableProducts(products_df, dietary_pref)
       IN  {[i \in DOMAIN Slice(sorted, num_predictions) |->
               [product_id |-> sorted[i].product_id,
                category |-> sorted[i].category,
                price_per_unit |-> sorted[i].price_per_unit,
                confidence |->
                  IF dietary_pref = "vegetarian"
                       /\ sorted[i].category = "Produce" THEN 80 ELSE 70]] :
             sorted \in SortValues(suitable_products,
                                   user.household_size > 2)}

\* _fallback_recommendations, lines 391-431 (num is num_recommendations)
FallbackRecommendations(tables_loaded, user_row, products_df, num) ==
  IF ~tables_loaded \/ user_row = <<>> THEN <<>>
  ELSE LET suitable_products ==
             SuitableProducts(products_df, user_row[1].dietary_preference)
       IN  [i \in DOMAIN Slice(suitable_products, num) |->
              [product_id |-> suitable_products[i].product_id,
               category |-> suitable_products[i].category,
               price_per_unit |-> suitable_products[i].price_per_unit,
               confidence |-> 75]]

\* the calls: a catalog of up to MaxCatalog products, the row of the user (or
\* none), and the number of products asked for, int(sys.argv[3])
InitFallback ==
  LET Users == [dietary_preference : {"vegetarian", "omnivore"},
                household_size : {2, 3}]
      Rows == SeqsUpTo([category : {"Produce", "Dairy"},
                        price_per_unit : {2, 5}], MaxCatalog)
  IN  /\ ProgramsOff
      /\ fn = "fallback"
      /\ \E rows \in Rows :
           fn_args \in [tables_loaded : BOOLEAN,
                        user_row : {<<>>} \union {<<u>> : u \in Users},
                        products_df :
                          {[i \in DOMAIN rows |->
                              [product_id |-> i,
                               category |-> rows[i].category,
                               price_per_unit |-> rows[i].price_per_unit]]},
                        num : -1..MaxNumProducts]
      /\ fn_returned = FALSE
      /\ fn_result = <<>>

FallbackPredictionsCall ==
  /\ fn = "fallback"
  /\ ~fn_returned
  /\ \E predictions \in FallbackPredictions(fn_args.tables_loaded,
                                            fn_args.user_row,
                                            fn_args.products_df, fn_args.num) :
       Return([op |-> "predictions", products |-> predictions])

FallbackRecommendationsCall ==
  /\ fn = "fallback"
  /\ ~fn_returned
  /\ Return([op |-> "recommendations",
             products |-> FallbackRecommendations(fn_args.tables_loaded,
                                                  fn_args.user_row,
                                                  fn_args.products_df,
                                                  fn_args.num)])

NextFallback == FallbackPredictionsCall \/ FallbackRecommendationsCall

(***************************************************************************)
(* Specifications.                                                         *)
(***************************************************************************)
InitGen ==
  /\ gpc = "users"
  /\ products_per_category \in 1..MaxProductsPerCategory
  /\ batch_size \in 1..MaxBatchSize
  /\ GenStart
  /\ CliOff
  /\ RateOff
  /\ FnOff

InitCli ==
  /\ gpc = "off"
  /\ products_per_category = 0
  /\ batch_size = 0
  /\ GenStart
  /\ (InitPredictions \/ InitIngredients)
  /\ RateOff
  /\ FnOff

InitRate ==
  /\ gpc = "off"
  /\ products_per_category = 0
  /\ batch_size = 0
  /\ GenStart
  /\ CliOff
  /\ rpc = "ready"
  /\ order_items_kind \in OrderItemsKinds
  /\ order_items_rows \in
       IF order_items_kind \in {"with_substituted", "without_substituted"}
         THEN SeqsUpTo(OrderItemRows, MaxRateRows)
         ELSE {<<>>}
  /\ products_loaded \in BOOLEAN
  /\ product_prices \in IF products_loaded THEN PriceTables ELSE {<<>>}
  /\ rng_state \in Draws
  /\ rate_calls = [p \in RatePids |-> 0]
  /\ first_rate = [p \in RatePids |-> NoRate]
  /\ last_result = [p \in RatePids |-> NoResult]
  /\ FnOff

\* the dataset generator
SpecGen == InitGen /\ [][NextGen]_vars
\* the dataset generator, which keeps running while it can
SpecGenFair == SpecGen /\ WF_vars(NextGen)
\* the two command-line scripts
SpecCli == InitCli /\ [][NextCli]_vars
\* a predictor answering get_product_substitution_rate calls
SpecRate == InitRate /\ [][NextRate]_vars
\* the labelling of one delivery slot
SpecSlotDate == InitSlotDate /\ [][NextSlotDate]_vars
\* one call of rank_products_for_user
SpecRank == InitRank /\ [][NextRank]_vars

\* the timestamp of one order of generate_orders
SpecOrderDate == InitOrderDate /\ [][NextOrderDate]_vars

\* one call of predict_delivery_times
SpecDelivery == InitDelivery /\ [][NextDelivery]_vars

\* one call of _fallback_predictions or _fallback_recommendations
SpecFallback == InitFallback /\ [][NextFallback]_vars

Init == InitGen \/ InitCli \/ InitRate
Next == NextGen \/ NextCli \/ NextRate
\* any one of the programs
Spec == Init /\ [][Next]_vars

(***************************************************************************)
(* Properties.                                                             *)
(***************************************************************************)
ErrorMessages ==
  {"usage", "invalid_arguments", "invalid_type", "traceback", "load_error"}
FailureOutcomes == {"raise", "no_attr", "empty", "bad_rows"}
RankingQueries == {"products", "recommendations", "ranking"}

\* some SDK call of the run failed: the SDK cannot be imported, no model was
\* built, or a predict call raised or returned an empty or malformed result
SdkFailure ==
  \/ ~KUMO_AVAILABLE
  \/ ~model
  \/ \E q \in Queries : sdk_outcome[q] \in FailureOutcomes

\* C1 as stated: whenever an SDK call failed in any of these ways, the
\* operation (predict_cart_items, predict_recommendations,
\* predict_delivery_times, rank_products_for_user) returned the result of its
\* fallback heuristic.
C1_AnyFailureGivesFallback ==
  (result_source # "none" /\ SdkFailure) => result_source = "fallback"

\* C1, amended: no operation raises (a run that reached its operation exits
\* with status 0); it returns its fallback result when the SDK is not
\* importable, no model was built, or its ranking predict call raised or
\* returned a result without the expected attribute, and for
\* predict_delivery_times also when the result is empty; a failed quantity
\* query of predict_cart_items only sets number_products to 20; every other
\* result, an empty one included, is built from the SDK's answer.
C1_FallbackOnRaise ==
  result_source # "none" =>
    /\ result_source \in {"sdk", "fallback"}
    /\ (cpc = "exited" => exit_status = 0)
    /\ (~KUMO_AVAILABLE \/ ~model) => result_source = "fallback"
    /\ \A q \in RankingQueries :
         sdk_outcome[q] \in {"raise", "no_attr"} => result_source = "fallback"
    /\ sdk_outcome["delivery"] \in {"raise", "no_attr", "empty"}
         => result_source = "fallback"
    /\ sdk_outcome["quantity"] \in FailureOutcomes
         => number_products = DefaultNumberProducts
    /\ result_source = "fallback" =>
         \/ ~KUMO_AVAILABLE
         \/ ~model
         \/ \E q \in RankingQueries : sdk_outcome[q] \in {"raise", "no_attr"}
         \/ sdk_outcome["delivery"] \in {"raise", "no_attr", "empty"}

\* C1, witness: predict_cart_items whose two predict calls both raised
\* returned the fallback result and the run ended normally.
C1_Witness ==
  /\ cpc = "exited"
  /\ exit_status = 0
  /\ sdk_outcome["quantity"] = "raise"
  /\ sdk_outcome["products"] = "raise"
  /\ result_source = "fallback"

C3_StdoutIsJsonOnly ==
  \A i \in DOMAIN stdout : stdout[i] = "json"

\* C4 as stated: no two products of the catalog built by
\* generate_products_via_api have the same product_id.
C4_ProductIdsUnique ==
  LET catalog == all_products \o category_products
  IN  \A i, j \in DOMAIN catalog :
        i # j => catalog[i].product_id # catalog[j].product_id

\* C5: the generated dataset is referentially intact: every order's user_id
\* is a generated user's, every order item's order_id is a generated order's
\* and its product_id, also when a variant replaced it, is in the catalog.
C5_ReferentialIntegrity ==
  /\ \A i \in DOMAIN orders : orders[i].user_id \in DOMAIN users
  /\ num_items > 0 =>
       /\ \E i \in DOMAIN orders : orders[i].order_id = last_item.order_id
       /\ last_item.product_id \in Ids(all_products)

\* C5, witness: an order item whose product was replaced by a variant.
C5_Witness ==
  /\ num_items > 0
  /\ last_item.was_substituted
  /\ last_item.product_id # last_item.original_id

\* C6: get_product_substitution_rate is deterministic: with the tables fixed,
\* every call for a product returns what the first call for it returned,
\* whatever was drawn from the random generator in between.
C6_Deterministic ==
  \A p \in RatePids :
    rate_calls[p] > 0 => last_result[p].rate = first_rate[p]

\* C6, witness: a product was asked for twice and answered from a heuristic
\* branch while the generator is not in the state that call left it in.
C6_Witness ==
  \E p \in RatePids :
    /\ rate_calls[p] >= 2
    /\ last_result[p].heuristic
    /\ rng_state # get_product_substitution_rate(p, rng_state).rng

\* C7 as stated: the basket-filling loop of generate_order_items ends after
\* finitely many iterations, for every non-empty catalog and every order.
C7_FillLoopEnds == (gpc = "fill") ~> (gpc # "fill")

\* C8: no external call is retried: a batch causes at most one call of the
\* completion API and a query at most one predict call, and after a failed
\* API call the batch continues with the fallback products.
C8_NoRetry ==
  /\ api_calls <= 1
  /\ \A q \in Queries : sdk_calls[q] <= 1
  /\ gpc = "api_failed" => api_calls = 1
  /\ \A q \in Queries : sdk_outcome[q] # "none" => sdk_calls[q] = 1

\* C8, witness: a batch whose API call failed holds the fallback products
\* after that one call.
C8_Witness ==
  /\ gpc = "have_base"
  /\ api_calls = 1
  /\ base_products # <<>>
  /\ base_products[1].origin = "fallback"

\* C9 as stated: every column the prediction scripts read or query by name
\* is a column the generator writes to the file of that name.
C9_ColumnsAreGeneratorColumns ==
  \A t \in Tables : cols_used[t] \subseteq GeneratorColumns[t]

\* C10: every value get_product_substitution_rate returns is a probability,
\* and a heuristic value lies in the band of its branch, between 1% and 40%.
C10_RateIsProbability ==
  \A p \in RatePids :
    rate_calls[p] > 0 =>
      LET r == last_result[p]
      IN  /\ r.rate.den > 0
          /\ 0 <= r.rate.num
          /\ r.rate.num <= r.rate.den
          /\ r.heuristic =>
               /\ r.rate.den = 1000
               /\ r.band[1] <= r.rate.num
               /\ r.rate.num <= r.band[2]
               /\ 10 <= r.band[1]
               /\ r.band[2] <= 400

\* C10, witness: a value of the widest band (21% to 40%) was returned.
C10_Witness ==
  \E p \in RatePids :
    /\ rate_calls[p] > 0
    /\ last_result[p].heuristic
    /\ last_result[p].band = <<210, 400>>

\* C11 as stated: on the SDK path of rank_products_for_user a requested
\* product the SDK did not rank has a kumo_rank strictly greater than that of
\* every SDK-ranked product of the result, and all kumo_rank values of the
\* result are pairwise distinct.
C11_MissingRankedLast ==
  (fn = "rank_products_for_user" /\ fn_returned /\ fn_result.path = "sdk") =>
    LET r == fn_result.results
    IN  \A i, j \in DOMAIN r :
          /\ (r[i].by = "missing" /\ r[j].by = "sdk")
               => r[i].kumo_rank > r[j].kumo_rank
          /\ i # j => r[i].kumo_rank # r[j].kumo_rank

\* C20: on the fallback path of rank_products_for_user the result lists the
\* requested products that exist in the catalog in input order, each with
\* its 1-based position in the input list as kumo_rank.
C20_FallbackRanksByInputPosition ==
  (fn = "rank_products_for_user" /\ fn_returned
     /\ fn_result.path = "fallback") =>
    LET r == fn_result.results
        product_ids == fn_args.product_ids
    IN  /\ \A j \in DOMAIN r :
             /\ r[j].kumo_rank \in DOMAIN product_ids
             /\ r[j].product_id = product_ids[r[j].kumo_rank]
             /\ r[j].product_id \in fn_args.catalog
        /\ \A i, j \in DOMAIN r : i < j => r[i].kumo_rank < r[j].kumo_rank
        /\ {r[j].kumo_rank : j \in DOMAIN r}
             = {i \in DOMAIN product_ids : product_ids[i] \in fn_args.catalog}

\* C20, witness: a fallback result in which a product follows a requested
\* product that is not in the catalog, so its rank is not its place in the
\* result.
C20_Witness ==
  /\ fn = "rank_products_for_user"
  /\ fn_returned
  /\ fn_result.path = "fallback"
  /\ \E j \in DOMAIN fn_result.results : fn_result.results[j].kumo_rank > j

\* C12 as stated: a slot is labelled 'Tomorrow' and dated the next day if
\* the current time is past the start of the window or within 30 minutes of
\* it, and otherwise labelled 'Today' and dated the current day, for every
\* current hour, minute and start hour.
C12_SlotLabel ==
  (fn = "slot_date" /\ fn_returned) =>
    LET now == 60 * fn_args.current_hour + fn_args.current_minute
        start == 60 * fn_args.hour
    IN  fn_result = IF now >= start - 30
                      THEN [date_label |-> "Tomorrow", days |-> 1]
                      ELSE [date_label |-> "Today", days |-> 0]

\* C13: when every batch succeeds the finished catalog holds exactly
\* products_per_category products for each category, similar variants
\* included
C13_ExactlyProductsPerCategory ==
  (gpc = "dataframe" /\ all_succeeded)
    => Len(all_products) = NumCategories * products_per_category

C16_FailedBatchOnlyFallback ==
  (gpc = "batch_head" /\ batch_outcome \in {"api_failed", "similar_raised"})
    => /\ Len(category_products) = batch_before + current_batch_size
       /\ \A i \in DOMAIN category_products :
            i > batch_before => category_products[i].origin = "fallback"

C18_StartHourConversion ==
  (fn = "predict_delivery_times" /\ fn_returned)
    => LET HasStart(w, start) ==
             /\ Len(w) > Len(start)
             /\ SubSeq(w, 1, Len(start)) = start
             /\ w[Len(start) + 1] = "-"
           windows ==
             IF fn_result.path = "sdk"
               THEN [i \in DOMAIN fn_args.rows |->
                       fn_args.rows[i].delivery_window]
               ELSE Slice(default_slots, fn_args.num_slots)
           slots == fn_result.processed_slots
       IN  /\ \A i \in DOMAIN slots : \A n \in 1..12 :
                /\ HasStart(slots[i].time_window, Digits(n) \o <<"a", "m">>)
                     => slots[i].hour = (IF n = 12 THEN 0 ELSE n)
                /\ HasStart(slots[i].time_window, Digits(n) \o <<"p", "m">>)
                     => slots[i].hour = (IF n = 12 THEN 12 ELSE n + 12)
           /\ [i \in DOMAIN slots |-> slots[i].time_window]
                = Flatten([i \in DOMAIN windows |->
                             IF \E start \in StartLabels :
                                  HasStart(windows[i], start)
                               THEN <<windows[i]>> ELSE <<>>])

\* an answer whose first window starts at "noon" and whose second starts at
\* "12am": the first is skipped, the second is processed as hour 0
C18_Witness ==
  /\ fn = "predict_delivery_times"
  /\ fn_returned
  /\ fn_result.path = "sdk"
  /\ Len(fn_args.rows) = 2
  /\ fn_args.rows[1].delivery_window
       = <<"n", "o", "o", "n", "-", "7", "p", "m">>
  /\ fn_args.rows[2].delivery_window
       = <<"1", "2", "a", "m", "-", "7", "p", "m">>
  /\ Len(fn_result.processed_slots) = 1
  /\ fn_result.processed_slots[1].hour = 0

\* what a fallback call returns, the number of products aside: nothing
\* without tables or user; only 'Produce' for a vegetarian; predictions from
\* the head of the catalog sorted by price, ascending for a household above
\* 2 and descending otherwise, with confidence 0.8 for a vegetarian and 0.7
\* otherwise
FallbackResultShape ==
  LET products == fn_result.products
      user == fn_args.user_row[1]
      vegetarian == user.dietary_preference = "vegetarian"
      suitable == {i \in DOMAIN fn_args.products_df :
                     vegetarian => fn_args.products_df[i].category = "Produce"}
      returned == {products[i].product_id : i \in DOMAIN products}
  IN  IF ~fn_args.tables_loaded \/ fn_args.user_row = <<>>
        THEN products = <<>>
        ELSE /\ returned \subseteq suitable
             /\ Cardinality(returned) = Len(products)
             /\ \A i \in DOMAIN products :
                  LET row == fn_args.products_df[products[i].product_id]
                  IN  /\ products[i].category = row.category
                      /\ products[i].price_per_unit = row.price_per_unit
             /\ fn_result.op = "predictions" =>
                  /\ \A i \in DOMAIN products :
                       products[i].confidence = IF vegetarian THEN 80 ELSE 70
                  /\ \A i \in DOMAIN products :
                       \A j \in (DOMAIN products) \union (suitable \ returned) :
                         LET later == IF j \in DOMAIN products /\ i < j
                                        THEN {products[j].price_per_unit}
                                        ELSE {}
                             left == IF j \in suitable \ returned
                                       THEN {fn_args.products_df[j]
                                               .price_per_unit}
                                       ELSE {}
                         IN  \A price \in later \union left :
                               IF user.household_size > 2
                                 THEN products[i].price_per_unit <= price
                                 ELSE products[i].price_per_unit >= price
             /\ fn_result.op = "recommendations" =>
                  \A i \in DOMAIN products : products[i].confidence = 75

\* C19: the fallback heuristics return a list of that shape with at most
\* the number of products asked for when that number is not negative; for a
\* negative number they return all suitable products but the last ones
C19_FallbackHeuristics ==
  (fn = "fallback" /\ fn_returned)
    => /\ FallbackResultShape
       /\ fn_args.num >= 0 => Len(fn_result.products) <= fn_args.num
       /\ (fn_args.num < 0 /\ fn_args.tables_loaded /\ fn_args.user_row # <<>>)
            => LET vegetarian ==
                     fn_args.user_row[1].dietary_preference = "vegetarian"
                   suitable ==
                     {i \in DOMAIN fn_args.products_df :
                        vegetarian
                          => fn_args.products_df[i].category = "Produce"}
               IN  Len(fn_result.products)
                     = Max(Cardinality(suitable) + fn_args.num, 0)

\* C19 as stated: the fallback heuristics return a list of that shape with
\* at most num_predictions (num_recommendations) products, hence none when
\* that number is not positive
C19_AtMostRequested ==
  (fn = "fallback" /\ fn_returned)
    => /\ FallbackResultShape
       /\ Len(fn_result.products) <= Max(fn_args.num, 0)

\* a vegetarian in a household of three asks for one prediction from a
\* catalog with two 'Produce' products and gets the cheaper one, which is
\* not the first of the catalog
C19_Witness ==
  /\ fn = "fallback"
  /\ fn_returned
  /\ fn_result.op = "predictions"
  /\ fn_args.num = 1
  /\ fn_args.user_row
       = <<[dietary_preference |-> "vegetarian", household_size |-> 3]>>
  /\ Len(fn_args.products_df) = 3
  /\ fn_args.products_df[1].category = "Dairy"
  /\ fn_args.products_df[2]
       = [product_id |-> 2, category |-> "Produce", price_per_unit |-> 5]
  /\ fn_args.products_df[3]
       = [product_id |-> 3, category |-> "Produce", price_per_unit |-> 2]
  /\ fn_result.products
       = <<[product_id |-> 3, category |-> "Produce", price_per_unit |-> 2,
            confidence |-> 80]>>

\* C21: what generate_base_products_batch returns has at most batch_size
\* products, each of the requested category and with a product_id in
\* start_id .. start_id + batch_size - 1; after a failed API call it is
\* exactly the batch_size fallback products with ids start_id, start_id + 1,
\* ..
C21_BaseBatchWellFormed ==
  (gpc = "have_base")
    => /\ Len(base_products) <= current_batch_size
       /\ \A i \in DOMAIN base_products :
            /\ base_products[i].category = Categories[cat]
            /\ base_products[i].product_id >= product_id_counter
            /\ base_products[i].product_id
                 <= product_id_counter + current_batch_size - 1
       /\ batch_outcome = "api_failed"
            => /\ Len(base_products) = current_batch_size
               /\ \A i \in DOMAIN base_products :
                    /\ base_products[i].origin = "fallback"
                    /\ base_products[i].product_id
                         = product_id_counter + (i - 1)

\* C22: a predict call is made only after the CSV data was loaded and graph
\* and model creation succeeded in the same run; when the SDK is not
\* importable or graph creation returned False, model stays None, no
\* predict call is made and the operation returns its fallback
C22_PredictOnlyWithModel ==
  LET called == \E q \in Queries : sdk_calls[q] > 0
      create_failed == "graph_error" \in Range(stderr)
  IN  /\ called => /\ loaded
                   /\ KUMO_AVAILABLE
                   /\ model
                   /\ "graph_created" \in Range(stderr)
      /\ (cpc # "off" /\ (~KUMO_AVAILABLE \/ create_failed))
           => /\ ~model
              /\ ~called
              /\ result_source \in {"none", "fallback"}

\* the SDK was imported, graph creation failed, and the operation has
\* returned its fallback result without a predict call
C22_Witness ==
  /\ KUMO_AVAILABLE
  /\ "graph_error" \in Range(stderr)
  /\ result_source = "fallback"
  /\ \A q \in Queries : sdk_calls[q] = 0

====
